---- MODULE Spec2Model ----
(***************************************************************************)
(* pyOptSparseDriver (openmdao/drivers/pyoptsparse_driver.py): the run()   *)
(* orchestrator and the two callbacks objfunc / gradfunc that the          *)
(* optimizer engine invokes while run() is blocked inside it.              *)
(*                                                                         *)
(* run() is one Python call, but the engine calls back into the driver in  *)
(* the middle of it, so it is modelled as Run (lines 93-196, up to the     *)
(* engine invocation), then any number of ObjFunc / GradFunc steps, then   *)
(* Finalize (lines 198-221, the engine returned a solution) or EngineRaise *)
(* (the engine invocation raised).                                         *)
(***************************************************************************)
EXTENDS Integers, Sequences, FiniteSets, TLC

VARIABLES
    declared,        \* constraints declared on the model (fixed per behaviour)
    phase,           \* "Idle" | "Solving" | "Done" | "Aborted": where run() is
    pyopt_solution,  \* self.pyopt_solution
    lin_jacs,        \* self.lin_jacs
    quantities,      \* self.quantities
    param_list,      \* self.param_list
    metadata,        \* iteration coordinate held by self.metadata
    iter_count,      \* self.iter_count
    exit_flag,       \* self.exit_flag
    _problem,        \* self._problem
    params,          \* the model's design variable values (set_param)
    solvedAt,        \* the point of the model's last completed solve_nonlinear
    opt_prob,        \* the Optimization object built by run()
    pyopt_diff,      \* self.options['pyopt_diff'] (fixed per behaviour)
    sens,            \* the sens argument the engine was invoked with
    cs,              \* the complex-step Jacobian check of the ExecComp
    failed,          \* a callback of this engine invocation returned fail 1
    ret              \* what the last step did and gave its caller

driver_vars == <<declared, phase, pyopt_solution, lin_jacs, quantities,
          param_list, metadata, iter_count, exit_flag, _problem, params,
          solvedAt, opt_prob, pyopt_diff, sens, failed, ret>>

vars == <<driver_vars, cs>>

(***************************************************************************)
(* Bounds of the exploration.                                              *)
(***************************************************************************)
MaxIter == 2
\* Largest magnitude of an input entry and largest step of the derivative
\* check, both counted in units of one fixed small quantum.
MaxX == 2
MaxStep == 3

(***************************************************************************)
(* The model under optimization: two design variables, one objective and   *)
(* up to three constraints (a nonlinear equality, a nonlinear inequality   *)
(* and a linear inequality).  "u" is a variable of the model that is not a *)
(* design variable; relevance sets range over all model variables.         *)
(***************************************************************************)
None == "None"

Vals == {0, 1}

ParamOrder == <<"p1", "p2">>

ObjOrder == <<"f">>

ConOrder == <<"ceq", "cin", "clin">>

con_meta ==
    [ceq  |-> [ctype |-> "eq",   linear |-> FALSE, equals |-> "0.0",
               lower |-> None, upper |-> None],
     cin  |-> [ctype |-> "ineq", linear |-> FALSE, equals |-> None,
               lower |-> "0.0", upper |-> "1.0"],
     clin |-> [ctype |-> "ineq", linear |-> TRUE,  equals |-> None,
               lower |-> None, upper |-> "1.0"]]

relevant ==
    [f    |-> {"p1", "p2", "u"},
     ceq  |-> {"p1", "u"},
     cin  |-> {"p2"},
     clin |-> {"p1"}]

Range(s) == {s[i] : i \in 1..Len(s)}

Params == Range(ParamOrder)

Points == [Params -> Vals]

\* The points the engine passes to the callbacks: every full point, and
\* one that lacks a registered design variable.
DvDicts == Points \cup {[p \in {"p1"} |-> 1]}

\* The constraint declarations explored.
Configs == {{}, {"clin"}, {"ceq", "cin"}, {"ceq", "cin", "clin"}}

InitPoint == [p \in Params |-> 0]

EmptyDict == [k \in {} |-> None]

\* The model before any solve, or after a solve that raised: its unknowns
\* belong to no point.
NoPoint == EmptyDict

(***************************************************************************)
(* Collaborators of the driver (Driver base class, Problem, Group).        *)
(***************************************************************************)
\* Driver.get_objectives(): the objectives, in declaration order.
get_objectives == ObjOrder

\* Driver.get_constraints(ctype, lintype): the declared constraints of the
\* given kind and linearity, in declaration order ("all" = no filter).
get_constraints(ctype, lintype) ==
    SelectSeq(ConOrder,
              LAMBDA c : /\ c \in declared
                         /\ ctype \in {"all", con_meta[c].ctype}
                         /\ lintype \in {"all", IF con_meta[c].linear
                                                THEN "linear" ELSE "nonlinear"})

\* The value of a response read from the model's unknowns: it is the value
\* computed by the last completed solve.
ValueOf(name, at) == <<name, at>>

\* Problem.calc_gradient(param_ids, resp_ids, return_format='dict'): one
\* block per requested (response, design variable) pair, linearized at the
\* model's current state.
calc_gradient(param_ids, resp_ids, at) ==
    [r \in resp_ids |-> [p \in param_ids |-> at]]

(***************************************************************************)
(* Initial state: the driver after __init__ (lines 73-81), attached to a   *)
(* model that sits at its initial point and has not been solved.           *)
(***************************************************************************)
EmptyProb == [vars |-> <<>>, objs |-> <<>>, cons |-> <<>>]

\* What a step did and handed back to its caller.  stage: how far the step
\* got (see RunStage, ObjStage, GradStage, FinStage); raised: the exception
\* that left the step (None when it returned); fail, func_dict, sens_dict:
\* the values a callback returned; point: the point objfunc was given; pt,
\* arg: the keys of the point and of the function dictionary gradfunc was
\* given; keys, of: the design variables
\* and the responses it passed to calc_gradient; nsolve, ngrad: the
\* solve_nonlinear and calc_gradient invocations of the step; nlin: its
\* assignments to self.lin_jacs; recorded: whether it persisted a record.
Ret(op, stage) ==
    [op |-> op, stage |-> stage, raised |-> None, fail |-> -1,
     func_dict |-> EmptyDict, sens_dict |-> EmptyDict, point |-> EmptyDict,
     pt |-> {}, arg |-> {},
     keys |-> {}, of |-> {}, nsolve |-> 0, ngrad |-> 0, nlin |-> 0,
     recorded |-> FALSE]

\* The derivative check before any perturbation run: x is the ones vector
\* of the test's ParamComp, no column of either Jacobian is computed.
ZeroJac == [j \in 1..2 |-> <<0, 0>>]

CSStart == [x |-> <<1, 1>>, h |-> 1, J |-> ZeroJac, done |-> {},
            fd |-> ZeroJac, fdone |-> {}]

DriverInit ==
    /\ declared \in Configs
    /\ phase = "Idle"
    /\ pyopt_solution = <<>>      \* None
    /\ lin_jacs = EmptyDict
    /\ quantities = <<>>
    /\ param_list = <<>>          \* attribute not set before the first run
    /\ metadata = -1              \* None
    /\ iter_count = -1            \* attribute not set before the first run
    /\ exit_flag = 0
    /\ _problem = None
    /\ params = InitPoint
    /\ solvedAt = NoPoint
    /\ opt_prob = EmptyProb
    /\ pyopt_diff \in BOOLEAN     \* option, default False (line 66)
    /\ sens = None
    /\ failed = FALSE
    /\ ret = Ret("init", 0)

Init == DriverInit /\ cs = CSStart

(***************************************************************************)
(* run(), lines 93-196: configuration and entry into the engine.           *)
(***************************************************************************)
\* Variant of EqConGroup: wrt is every registered design variable, the
\* relevance set being ignored.
EqConGroup_Dense(name, plist, lj) ==
    [name |-> name, lower |-> con_meta[name].equals,
     upper |-> con_meta[name].equals, linear |-> FALSE, wrt |-> Range(plist),
     jac |-> EmptyDict]

\* Lines 131-148: an equality constraint's group (lower = upper = equals).
EqConGroup(name, plist, lj) ==
    LET wrt == relevant[name] \cap Range(plist)
    IN  IF con_meta[name].linear
        THEN [name |-> name, lower |-> con_meta[name].equals,
              upper |-> con_meta[name].equals, linear |-> TRUE, wrt |-> wrt,
              jac |-> lj[name]]
        ELSE [name |-> name, lower |-> con_meta[name].equals,
              upper |-> con_meta[name].equals, linear |-> FALSE, wrt |-> wrt,
              jac |-> EmptyDict]

\* Lines 150-169: an inequality constraint's group (two-sided bounds).
IneqConGroup(name, plist, lj) ==
    LET wrt == relevant[name] \cap Range(plist)
    IN  IF con_meta[name].linear
        THEN [name |-> name, lower |-> con_meta[name].lower,
              upper |-> con_meta[name].upper, linear |-> TRUE, wrt |-> wrt,
              jac |-> lj[name]]
        ELSE [name |-> name, lower |-> con_meta[name].lower,
              upper |-> con_meta[name].upper, linear |-> FALSE, wrt |-> wrt,
              jac |-> EmptyDict]

\* Line 124: lcons = self.get_constraints(lintype='linear').values(), the
\* VALUES of the linear constraints (not their names) at the initial solve.
LinCons(at) ==
    LET ns == get_constraints("all", "linear")
    IN  [i \in 1..Len(ns) |-> ValueOf(ns[i], at)]

\* How far run() gets before the engine is entered: the step that raises.
RunFaults == {"none", "solve", "calc_gradient", "import"}

RunStage(fault) ==
    CASE fault = "solve"         -> 1
      [] fault = "calc_gradient" -> 2
      [] fault = "import"        -> 3
      [] OTHER                   -> 4

\* Variant of RunRegisters: the registry is built before the initial solve.
RunRegisters_BeforeSolve(k) == TRUE

\* Lines 104-169 (the Optimization object and what is registered with it)
\* come after the initial solve of line 102 returned.
RunRegisters(k) == k > 1

\* Variant of SensSource: the two branches of the toggle are exchanged.
SensSource_Swapped(diff) == IF diff THEN "gradfunc" ELSE "FD"

\* Lines 190-196: sens='FD' when options['pyopt_diff'] is True, otherwise
\* sens=self.gradfunc.
SensSource(diff) == IF diff THEN "FD" ELSE "gradfunc"

Run(fault) ==
    LET k     == RunStage(fault)
        at    == IF k > 1 THEN params ELSE NoPoint
        lcons == LinCons(at)
        econs == get_constraints("eq", "nonlinear")
        incons == get_constraints("ineq", "nonlinear")
        lj    == IF k > 2 /\ Len(lcons) > 0
                 THEN calc_gradient(Range(ParamOrder), Range(lcons), at)
                 ELSE lin_jacs
    IN  /\ phase \in {"Idle", "Done", "Aborted"}
        /\ fault = "calc_gradient" => Len(lcons) > 0
        /\ pyopt_solution' = <<>>                              \* line 93
        /\ metadata' = 0                                       \* lines 97-99
        /\ iter_count' = 0
        /\ solvedAt' = at                                      \* line 102
        /\ param_list' = IF k > 1 THEN ParamOrder ELSE param_list
        /\ quantities' =                                       \* 119, 134, 152
              IF k > 2 THEN get_objectives \o econs \o incons
              ELSE IF k > 1 THEN get_objectives
              ELSE quantities
        /\ lin_jacs' = lj                                      \* line 126
        /\ opt_prob' =
              IF ~RunRegisters(k) THEN EmptyProb
              ELSE [vars |-> ParamOrder,
                    objs |-> get_objectives,
                    cons |-> IF k <= 2 THEN <<>>
                             ELSE [i \in 1..Len(econs) |->
                                      EqConGroup(econs[i], ParamOrder, lj)]
                                  \o [i \in 1..Len(incons) |->
                                      IneqConGroup(incons[i], ParamOrder, lj)]]
        /\ _problem' = IF k = 4 THEN "problem" ELSE _problem   \* line 187
        /\ sens' = IF k = 4 THEN SensSource(pyopt_diff) ELSE None  \* 190-196
        /\ phase' = IF k = 4 THEN "Solving" ELSE "Aborted"
        /\ failed' = FALSE
        /\ ret' = [Ret("run", k) EXCEPT
                      !.raised = CASE k = 4 -> None
                                   [] k = 3 -> "ImportError"
                                   [] OTHER -> "Exception",
                      !.nsolve = 1,
                      !.ngrad = IF k > 1 /\ Len(lcons) > 0 THEN 1 ELSE 0,
                      !.nlin = IF k > 2 /\ Len(lcons) > 0 THEN 1 ELSE 0]
        /\ UNCHANGED <<declared, exit_flag, params, pyopt_diff, cs>>

(***************************************************************************)
(* objfunc(dv_dict), lines 242-308.                                        *)
(***************************************************************************)
\* The step of objfunc that raises: "prelude" is lines 244-248 (metadata,
\* root, comm, rank, size), "set_param" lines 251-252, "meta" line 259,
\* "solve" line 261, "objectives" line 264, "constraints" line 275,
\* "record" line 287.
ObjFaults == {"none", "prelude", "set_param", "meta", "solve", "objectives",
              "constraints", "record"}

ObjStage(fault) ==
    CASE fault = "prelude"     -> 1
      [] fault = "set_param"   -> 2
      [] fault = "meta"        -> 3
      [] fault = "solve"       -> 4
      [] fault = "objectives"  -> 5
      [] fault = "constraints" -> 6
      [] fault = "record"      -> 7
      [] OTHER                 -> 8

\* Lines 250 and 295: the try block opens after the prelude, so `except
\* Exception` catches what stages 2..7 raise and nothing of stage 1.
ObjCaught(k) == k > 1

\* Variant of ObjFail: a failure is remembered, so that once a callback has
\* failed every later evaluation reports failure too.
ObjFail_Sticky(k) == IF k = 8 /\ ~failed THEN 0 ELSE 1

\* Lines 242, 293, 304: fail is 0 only when line 293 was reached.
ObjFail(k) == IF k = 8 THEN 0 ELSE 1

\* Lines 251-252: for name in self.param_list: set_param(name, dv_dict[name]);
\* a name missing from dv_dict raises KeyError after the earlier names were
\* applied.
RECURSIVE SetParams(_, _, _, _)
SetParams(ps, plist, dv, i) ==
    IF i > Len(plist) THEN [params |-> ps, ok |-> TRUE]
    ELSE IF plist[i] \notin DOMAIN dv THEN [params |-> ps, ok |-> FALSE]
    ELSE SetParams([ps EXCEPT ![plist[i]] = dv[plist[i]]], plist, dv, i + 1)

\* Variant of ObjIterCount: the counter is advanced only after
\* update_local_meta returned.
ObjIterCount_AfterMeta(k) == IF k > 3 THEN iter_count + 1 ELSE iter_count

\* Line 258: self.iter_count += 1, reached once the set_param loop is done.
ObjIterCount(k) == IF k > 2 THEN iter_count + 1 ELSE iter_count

\* Variant of ObjRecorded: the record is persisted right after the solve,
\* before the objectives and constraints are harvested.
ObjRecorded_AfterSolve(k) == k > 4

\* Line 287: self.record(metadata), reached after both harvesting loops.
ObjRecorded(k) == k > 7

\* Variant of Harvest: the objectives are copied before the solve.
Harvest_BeforeSolve(k, at) ==
    LET names == (IF k > 3 THEN Range(get_objectives) ELSE {})
                 \cup (IF k > 6 THEN Range(get_constraints("all", "all"))
                       ELSE {})
    IN  [n \in names |-> ValueOf(n, at)]

\* Lines 264-283: func_dict[name] = value, objectives first, then every
\* constraint get_constraints() returns (linear ones included).
Harvest(k, at) ==
    LET names == (IF k > 5 THEN Range(get_objectives) ELSE {})
                 \cup (IF k > 6 THEN Range(get_constraints("all", "all"))
                       ELSE {})
    IN  [n \in names |-> ValueOf(n, at)]

ObjFunc(dv_dict, fault) ==
    LET ap  == SetParams(params, param_list, dv_dict, 1)
        k   == IF fault # "prelude" /\ ~ap.ok THEN 2 ELSE ObjStage(fault)
        ps  == IF k = 1 \/ fault = "set_param" THEN params ELSE ap.params
        at  == IF k > 4 THEN ps ELSE IF k = 4 THEN NoPoint ELSE solvedAt
    IN  /\ phase = "Solving"
        /\ iter_count < MaxIter
        /\ params' = ps
        /\ iter_count' = ObjIterCount(k)
        /\ metadata' = IF k > 3 THEN iter_count + 1 ELSE metadata
        /\ solvedAt' = at
        /\ failed' = (failed \/ (ObjCaught(k) /\ ObjFail(k) = 1))
        /\ ret' = IF ObjCaught(k)
                  THEN [Ret("objfunc", k) EXCEPT
                           !.fail = ObjFail(k),
                           !.func_dict = Harvest(k, at),
                           !.point = dv_dict,
                           !.nsolve = IF k > 3 THEN 1 ELSE 0,
                           !.recorded = ObjRecorded(k)]
                  ELSE [Ret("objfunc", k) EXCEPT !.raised = "Exception",
                                                 !.point = dv_dict]
        /\ UNCHANGED <<declared, phase, pyopt_solution, lin_jacs,
                       quantities, param_list, exit_flag, _problem, opt_prob,
                       pyopt_diff, sens, cs>>

(***************************************************************************)
(* gradfunc(dv_dict, func_dict), lines 331-356.                            *)
(***************************************************************************)
GradFaults == {"none", "calc_gradient"}

\* Variant of GradKeys: self.param_list instead of dv_dict.keys().
GradKeys_ParamList(dv_dict, func_dict) == Range(param_list)

\* Line 335: the design variables asked of calc_gradient.
GradKeys(dv_dict, func_dict) == DOMAIN dv_dict

\* Variant of GradOf: the responses named in func_dict instead of
\* self.quantities.
GradOf_FuncDict(dv_dict, func_dict) == DOMAIN func_dict

\* Line 336: the responses asked of calc_gradient.
GradOf(dv_dict, func_dict) == Range(quantities)

\* How far gradfunc gets: 1 when self._problem is None (line 335 raises
\* AttributeError before calc_gradient is entered), 2 when calc_gradient
\* raises, 3 when line 341 is reached.
GradStage(fault) ==
    IF _problem = None THEN 1 ELSE IF fault = "calc_gradient" THEN 2 ELSE 3

\* Lines 334 and 343: the try block covers the whole body.
GradCaught(k) == TRUE

\* Variant of GradFail: fail initialised to 0 at line 331.
GradFail_InitZero(k) == 0

\* Lines 331, 341: fail is 0 only when line 341 was reached.
GradFail(k) == IF k = 3 THEN 0 ELSE 1

\* Variant of GradAt: the point given is applied before linearizing.
GradAt_Point(dv_dict) == dv_dict

\* Lines 335-337: calc_gradient linearizes the model as it stands; dv_dict
\* gives the keys only, its values are not applied and nothing is solved.
GradAt(dv_dict) == solvedAt

GradFunc(dv_dict, func_dict, fault) ==
    LET k    == GradStage(fault)
        keys == IF k > 1 THEN GradKeys(dv_dict, func_dict) ELSE {}
        of   == IF k > 1 THEN GradOf(dv_dict, func_dict) ELSE {}
    IN  /\ fault = "calc_gradient" => k = 2
        \* inside the engine the callback is called by the engine, which
        \* has it only as the sens argument of lines 193/196
        /\ phase = "Solving" => sens = "gradfunc"
        /\ failed' = (failed \/ (phase = "Solving" /\ GradCaught(k)
                                               /\ GradFail(k) = 1))
        /\ ret' = IF GradCaught(k)
                  THEN [Ret("gradfunc", k) EXCEPT
                           !.fail = GradFail(k),
                           !.sens_dict = IF k = 3
                                         THEN calc_gradient(keys, of,
                                                            GradAt(dv_dict))
                                         ELSE EmptyDict,
                           !.pt = DOMAIN dv_dict,
                           !.arg = DOMAIN func_dict,
                           !.keys = keys,
                           !.of = of,
                           !.ngrad = IF k > 1 THEN 1 ELSE 0]
                  ELSE [Ret("gradfunc", k) EXCEPT
                           !.raised = "Exception",
                           !.pt = DOMAIN dv_dict,
                           !.arg = DOMAIN func_dict]
        /\ UNCHANGED <<declared, phase, pyopt_solution, lin_jacs,
                       quantities, param_list, metadata, iter_count,
                       exit_flag, _problem, params, solvedAt, opt_prob,
                       pyopt_diff, sens, cs>>

(***************************************************************************)
(* run(), lines 198-221: the engine returned the solution sol.             *)
(***************************************************************************)
\* sol.optInform: the status table, with or without its 'value' entry.
InformTables == {EmptyDict} \cup {[key \in {"value"} |-> c] : c \in 2..3}

Sols == [dvs : Points, optInform : InformTables]

\* d[key] of a Python dict: the value, or KeyError.
Lookup(d, key) ==
    IF key \in DOMAIN d THEN [exc |-> None, val |-> d[key]]
    ELSE [exc |-> "KeyError", val |-> 0]

\* Variant of ExitClass: the KeyError of a missing 'value' is not caught.
ExitClass_Uncaught(sol) ==
    LET r == Lookup(sol.optInform, "value")
    IN  IF r.exc = "KeyError" THEN [exit_flag |-> 0, exc |-> "KeyError"]
        ELSE IF r.val > 2 THEN [exit_flag |-> 0, exc |-> None]
        ELSE [exit_flag |-> 1, exc |-> None]

\* Lines 215-221: exit_flag from sol.optInform['value']; KeyError is caught.
ExitClass(sol) ==
    LET r == Lookup(sol.optInform, "value")
    IN  IF r.exc = "KeyError" THEN [exit_flag |-> 0, exc |-> None]
        ELSE IF r.val > 2 THEN [exit_flag |-> 0, exc |-> None]
        ELSE [exit_flag |-> 1, exc |-> None]

FinFaults == {"none", "set_param", "solve"}

FinStage(fault) ==
    CASE fault = "set_param" -> 1
      [] fault = "solve"     -> 2
      [] OTHER               -> 3

\* Variant of FinalParams: only the first design variable is read back.
FinalParams_FirstOnly(ps, plist, dvs) ==
    SetParams(ps, SubSeq(plist, 1, 1), dvs, 1).params

\* Lines 206-209: every name of param_list is set from sol.getDVs().
FinalParams(ps, plist, dvs) == SetParams(ps, plist, dvs, 1).params

\* Line 211: the solve after the optimum was applied.
FinalSolves(k) == IF k > 1 THEN 1 ELSE 0

Finalize(sol, fault) ==
    LET k  == FinStage(fault)
        ps == IF k > 1 THEN FinalParams(params, param_list, sol.dvs)
              ELSE params
        ec == ExitClass(sol)
    IN  /\ phase = "Solving"
        /\ _problem' = None                                    \* line 198
        /\ params' = ps
        /\ solvedAt' = IF k > 2 THEN ps
                       ELSE IF k = 2 THEN NoPoint ELSE solvedAt
        /\ pyopt_solution' = IF k > 2 THEN <<sol>> ELSE pyopt_solution
        /\ exit_flag' = IF k > 2 /\ ec.exc = None THEN ec.exit_flag
                        ELSE exit_flag
        /\ phase' = IF k > 2 /\ ec.exc = None THEN "Done" ELSE "Aborted"
        /\ ret' = [Ret("finalize", k) EXCEPT
                      !.raised = IF k < 3 THEN "Exception" ELSE ec.exc,
                      !.nsolve = FinalSolves(k)]
        /\ sens' = None
        /\ UNCHANGED <<declared, lin_jacs, quantities, param_list,
                       metadata, iter_count, opt_prob, pyopt_diff, failed,
                       cs>>

\* Lines 193/196: the engine invocation raises; run() propagates it and
\* line 198 is not reached.
EngineRaise ==
    /\ phase = "Solving"
    /\ phase' = "Aborted"
    /\ ret' = [Ret("engine", 0) EXCEPT !.raised = "EngineError"]
    /\ sens' = None
    /\ UNCHANGED <<declared, pyopt_solution, lin_jacs, quantities,
                   param_list, metadata, iter_count, exit_flag, _problem,
                   params, solvedAt, opt_prob, pyopt_diff, failed, cs>>

Next ==
    \/ \E fault \in RunFaults : Run(fault)
    \/ \E dv_dict \in DvDicts, fault \in ObjFaults : ObjFunc(dv_dict, fault)
    \/ \E dv_dict \in DvDicts, k \in {5, 7}, fault \in GradFaults :
          \* func_dict: what objfunc returns when it stops at stage k
          GradFunc(dv_dict, Harvest(k, solvedAt), fault)
    \/ \E sol \in Sols, fault \in FinFaults : Finalize(sol, fault)
    \/ EngineRaise

Spec == Init /\ [][Next]_vars

(***************************************************************************)
(* Complex-step Jacobian of the ExecComp of test_simple_array_model.       *)
(* A complex number is a pair <<re, im>> of integers counted in units of   *)
(* one fixed small quantum, so the arithmetic is exact; rounding of the    *)
(* floating-point evaluation is not represented.                           *)
(***************************************************************************)
CReal(r) == <<r, 0>>
CAdd(a, b) == <<a[1] + b[1], a[2] + b[2]>>
CSub(a, b) == <<a[1] - b[1], a[2] - b[2]>>
CMul(a, b) == <<a[1] * b[1] - a[2] * b[2], a[1] * b[2] + a[2] * b[1]>>

\* test_execcomp.py lines 66-67: y[0]=2.0*x[0]+7.0*x[1] and
\* y[1]=5.0*x[0]-3.0*x[1], evaluated with complex arithmetic.
ExecExpr(x) ==
    << CAdd(CMul(CReal(2), x[1]), CMul(CReal(7), x[2])),
       CSub(CMul(CReal(5), x[1]), CMul(CReal(3), x[2])) >>

\* Variant of Perturb: every input entry is perturbed in the same run.
Perturb_All(x, h, j) == [i \in 1..Len(x) |-> <<x[i], h>>]

\* The single entry j of x is moved by h along the imaginary axis.
Perturb(x, h, j) ==
    [i \in 1..Len(x) |-> IF i = j THEN <<x[i], h>> ELSE <<x[i], 0>>]

\* Column j of the complex-step Jacobian: Im(y[i]) / h for every output i.
ComplexStepColumn(x, h, j) ==
    LET y == ExecExpr(Perturb(x, h, j))
    IN  [i \in 1..Len(y) |-> y[i][2] \div h]

\* Column j of the reference derivative of check_partial_derivatives: the
\* forward difference of the real outputs over a real step d of entry j.
ReferenceColumn(x, d, j) ==
    LET y0 == ExecExpr([i \in 1..Len(x) |-> CReal(x[i])])
        y1 == ExecExpr([i \in 1..Len(x) |->
                           CReal(IF i = j THEN x[i] + d ELSE x[i])])
    IN  [i \in 1..Len(y0) |-> (y1[i][1] - y0[i][1]) \div d]

Abs(n) == IF n < 0 THEN 0 - n ELSE n

\* Entry-wise 1-norm of a two-column Jacobian (zero exactly when the
\* Frobenius norm the check reports is zero).
Norm(M) == Abs(M[1][1]) + Abs(M[1][2]) + Abs(M[2][1]) + Abs(M[2][2])

AbsError(J, R) ==
    Norm([j \in 1..2 |-> [i \in 1..2 |-> J[j][i] - R[j][i]]])

\* The relative error abs error / norm of the reference is defined and zero.
RelErrorZero(J, R) == Norm(R) # 0 /\ AbsError(J, R) = 0

CSInits ==
    [x : (0 - MaxX .. MaxX) \X (0 - MaxX .. MaxX), h : 1..MaxStep,
     J : {ZeroJac}, done : {{}}, fd : {ZeroJac}, fdone : {{}}]

InitCS == DriverInit /\ declared = {} /\ ~pyopt_diff /\ cs \in CSInits

\* One perturbation run of the complex step: column j of J.
ComplexStep(j) ==
    /\ j \notin cs.done
    /\ cs' = [cs EXCEPT !.J[j] = ComplexStepColumn(cs.x, cs.h, j),
                        !.done = @ \cup {j}]
    /\ UNCHANGED driver_vars

\* One run of the reference derivative: column j of fd.
Reference(j) ==
    /\ j \notin cs.fdone
    /\ cs' = [cs EXCEPT !.fd[j] = ReferenceColumn(cs.x, cs.h, j),
                        !.fdone = @ \cup {j}]
    /\ UNCHANGED driver_vars

NextCS ==
    \/ \E j \in 1..2 : ComplexStep(j)
    \/ \E j \in 1..2 : Reference(j)

SpecCS == InitCS /\ [][NextCS]_vars

(***************************************************************************)
(* Properties.                                                             *)
(***************************************************************************)
AllResponses == Range(ObjOrder) \cup declared

LinearCons == {c \in declared : con_meta[c].linear}

NonlinearCons == {c \in declared : ~con_meta[c].linear}

Registered == Range(param_list)

\* C1: the evaluation callback never raises: whatever step of it raises
\* (the prelude reading metadata/root/comm included), it returns to the
\* engine, and with fail flag 1.
C1_ObjfuncNeverRaises ==
    (ret.op = "objfunc" /\ ret.stage < 8) =>
        (ret.raised = None /\ ret.fail = 1)

\* C2: the gradient callback never raises: when calc_gradient raises or no
\* problem handle is set it returns fail flag 1 with an empty sensitivity
\* dictionary, and it returns fail flag 0 only when calc_gradient completed.
C2_GradfuncNeverRaises ==
    ret.op = "gradfunc" =>
        /\ ret.raised = None
        /\ ret.fail \in {0, 1}
        /\ ret.stage < 3 => (ret.fail = 1 /\ ret.sens_dict = EmptyDict)
        /\ ret.fail = 0 => (ret.stage = 3 /\ ret.ngrad = 1)

\* C2 witness: a gradient callback whose calc_gradient raised returned 1.
C2_Witness ==
    ret.op = "gradfunc" /\ ret.stage = 2 /\ ret.fail = 1 /\ ret.raised = None

\* C3 as stated: after a callback has returned fail flag 1, a later
\* evaluation callback whose solve did not raise returns fail flag 0 with
\* every objective and constraint.
C3_AsStated ==
    [][(failed /\ ret'.op = "objfunc" /\ ret'.stage > 4) =>
           (ret'.fail = 0 /\ DOMAIN ret'.func_dict = AllResponses)]_vars

\* C3 (amended): a failed callback is not sticky: a callback that returned
\* fail flag 1 leaves the driver inside the engine with its handle set, and
\* a later evaluation callback in which no step raises returns fail flag 0
\* with every objective and constraint.
C3_NotSticky ==
    [][/\ (phase = "Solving" /\ ret'.op \in {"objfunc", "gradfunc"}
           /\ ret'.fail = 1) =>
              (phase' = "Solving" /\ _problem' = "problem" /\ failed')
       /\ (failed /\ ret'.op = "objfunc" /\ ret'.stage = 8) =>
              (ret'.raised = None /\ ret'.fail = 0
               /\ DOMAIN ret'.func_dict = AllResponses)]_vars

\* C3 witness: the second evaluation of a run succeeded after a failure.
C3_Witness ==
    /\ failed /\ ret.op = "objfunc" /\ ret.stage = 8 /\ ret.fail = 0
    /\ iter_count = 2 /\ declared # {}

\* C4: the gradient callback requests and returns, for each response, only
\* design variables in the response's relevant set intersected with the
\* registered design variables.
C4_OnlyRelevantPairs ==
    ret.op = "gradfunc" =>
        /\ \A r \in ret.of : ret.keys \subseteq (relevant[r] \cap Registered)
        /\ \A r \in DOMAIN ret.sens_dict :
              DOMAIN ret.sens_dict[r] \subseteq (relevant[r] \cap Registered)

\* C5: once run() has entered the engine, every declared linear constraint
\* is registered as a constraint group flagged linear that carries a
\* Jacobian.
C5_LinearRegistered ==
    phase = "Solving" =>
        \A c \in LinearCons :
            \E i \in 1..Len(opt_prob.cons) :
                /\ opt_prob.cons[i].name = c
                /\ opt_prob.cons[i].linear
                /\ opt_prob.cons[i].jac # EmptyDict

\* C6: no gradient callback requests a sensitivity for a linear constraint;
\* self.lin_jacs is assigned at most once per run(), only before the engine
\* is entered and linearized at the initial point, and no callback (nor any
\* later step of the run) changes it.
C6_LinJacsFixed ==
    [][/\ ret'.nlin <= 1
       /\ ret'.nlin = 1 =>
             /\ ret'.op = "run" /\ ret'.ngrad = 1 /\ ret'.nsolve = 1
             /\ \A id \in DOMAIN lin_jacs' :
                   \A p \in DOMAIN lin_jacs'[id] : lin_jacs'[id][p] = params
       /\ ret'.op # "run" => lin_jacs' = lin_jacs
       /\ ret'.op = "gradfunc" => ret'.of \cap LinearCons = {}]_vars

\* C6 witness: a gradient callback completed on a model with a linear
\* constraint whose Jacobian is stored.
C6_Witness ==
    /\ ret.op = "gradfunc" /\ ret.fail = 0 /\ phase = "Solving"
    /\ LinearCons # {} /\ lin_jacs # EmptyDict

\* C7 as stated: the pairs requested of calc_gradient are the keys of the
\* point crossed with the responses named in the function dictionary, also
\* when that dictionary is the one a successful evaluation returns.
C7_AsStated ==
    (ret.op = "gradfunc" /\ ret.ngrad = 1 /\ ret.arg = AllResponses) =>
        (ret.keys = ret.pt /\ ret.of = ret.arg)

\* C7 (amended): the pairs requested of calc_gradient are the keys of the
\* point crossed with self.quantities, whatever the function dictionary
\* holds; inside the engine self.quantities is the objectives and the
\* nonlinear constraints, the linear constraints excluded.
C7_RequestedPairs ==
    (ret.op = "gradfunc" /\ ret.ngrad = 1) =>
        /\ ret.keys = ret.pt
        /\ ret.of = Range(quantities)
        /\ phase = "Solving" => ret.of = Range(ObjOrder) \cup NonlinearCons

\* C7 witness: a gradient callback given the function dictionary of a
\* successful evaluation on a model with a linear constraint.
C7_Witness ==
    /\ ret.op = "gradfunc" /\ ret.ngrad = 1 /\ phase = "Solving"
    /\ LinearCons # {} /\ ret.arg = AllResponses /\ ret.of # ret.arg
    /\ ret.pt = {"p1"}

\* C8: when the engine is unavailable run() raises before any nonlinear
\* solve or gradient computation was performed.
C8_FailsBeforeAnySolve ==
    (ret.op = "run" /\ ret.raised = "ImportError") =>
        (ret.nsolve = 0 /\ ret.ngrad = 0)

\* C9: when run() returns after the engine gave a solution, every
\* registered design variable holds the solution's value, exactly one
\* solve followed the engine's return, and it was done at that point.
C9_FinalStateIsOptimum ==
    (ret.op = "finalize" /\ ret.raised = None) =>
        /\ pyopt_solution # <<>>
        /\ \A p \in Registered : params[p] = pyopt_solution[1].dvs[p]
        /\ solvedAt = pyopt_solution[1].dvs
        /\ ret.nsolve = 1

\* C9 witness: run() returned after evaluations were made, with an optimum
\* that is not the initial point.
C9_Witness ==
    /\ ret.op = "finalize" /\ ret.raised = None /\ iter_count = 2
    /\ pyopt_solution # <<>>
    /\ pyopt_solution[1].dvs = [p \in Params |-> IF p = "p1" THEN 1 ELSE 0]
    /\ params = pyopt_solution[1].dvs

\* C10: the exit classification never raises; exit_flag is 1 when the
\* status code is present and not greater than 2, and 0 when it is greater
\* than 2 or absent.
C10_ExitClassification ==
    (ret.op = "finalize" /\ ret.stage = 3) =>
        /\ ret.raised = None
        /\ pyopt_solution # <<>>
        /\ LET inform == pyopt_solution[1].optInform
           IN  exit_flag = IF "value" \in DOMAIN inform
                           THEN (IF inform["value"] <= 2 THEN 1 ELSE 0)
                           ELSE 0

\* C10 witness: a solution without a status code was classified as failed.
C10_Witness ==
    /\ ret.op = "finalize" /\ ret.stage = 3 /\ ret.raised = None
    /\ pyopt_solution # <<>>
    /\ pyopt_solution[1].optInform = EmptyDict
    /\ exit_flag = 0

\* C11 as stated: every evaluation callback invocation advances the
\* iteration counter by exactly one, at whatever step it fails.
C11_AsStated ==
    [][ret'.op = "objfunc" => iter_count' = iter_count + 1]_vars

\* C11 (amended): run() sets the iteration counter to 0; an evaluation
\* callback advances it by exactly one when it gets past applying the design
\* variables (whether or not a later step fails) and leaves it unchanged
\* when the prelude or set_param raises; the gradient callback, finalization
\* and an engine error leave it unchanged, so it never decreases in a run.
C11_IterCount ==
    [][/\ ret'.op = "run" => iter_count' = 0
       /\ ret'.op = "objfunc" =>
             iter_count' = IF ret'.stage > 2 THEN iter_count + 1
                           ELSE iter_count
       /\ ret'.op \in {"gradfunc", "finalize", "engine"} =>
             iter_count' = iter_count
       /\ ret'.op # "run" => iter_count' >= iter_count]_vars

\* C11 witness: the second evaluation of a run failed at the solve and was
\* counted.
C11_Witness ==
    /\ ret.op = "objfunc" /\ ret.stage = 4 /\ ret.fail = 1
    /\ iter_count = 2 /\ metadata = 2

\* C12: every run() performs exactly one nonlinear solve while configuring,
\* at the initial point, before anything is registered with the optimizer
\* (a run whose initial solve raises has registered nothing) and before the
\* engine, and so any callback, is entered.
C12_InitialSolveFirst ==
    /\ ret.op = "run" =>
          /\ ret.nsolve = 1
          /\ ret.stage = 1 => opt_prob = EmptyProb
          /\ opt_prob.vars # <<>> => (ret.stage > 1 /\ solvedAt = params)
          /\ phase = "Solving" =>
                (ret.stage = 4 /\ iter_count = 0 /\ solvedAt = params
                 /\ opt_prob.vars = ParamOrder)
    /\ ret.op = "objfunc" => phase = "Solving"

\* C12 witness: run() has entered the engine with the design variables and
\* two constraints registered, after its single initial solve.
C12_Witness ==
    /\ ret.op = "run" /\ phase = "Solving" /\ ret.nsolve = 1
    /\ opt_prob.vars = ParamOrder /\ Len(opt_prob.cons) = 2
    /\ solvedAt = params

\* C13: within one evaluation callback every registered design variable is
\* set from the point before the counter is advanced and the metadata
\* refreshed, these before the single solve, the solve before any value is
\* copied into the function dictionary, and the record is persisted only
\* after every objective and constraint was copied: no record is persisted
\* by an invocation whose solve or harvesting raised.
C13_StepOrder ==
    (ret.op = "objfunc" /\ ret.raised = None) =>
        /\ ret.nsolve <= 1
        /\ ret.stage > 2 =>
              \A p \in Registered :
                  p \in DOMAIN ret.point /\ params[p] = ret.point[p]
        /\ ret.nsolve = 1 =>
              (ret.stage > 3 /\ iter_count >= 1 /\ metadata = iter_count)
        /\ ret.func_dict # EmptyDict =>
              (ret.nsolve = 1 /\ ret.stage > 5 /\ solvedAt = params)
        /\ ret.recorded =>
              /\ ret.stage = 8
              /\ DOMAIN ret.func_dict = AllResponses
              /\ \A n \in AllResponses : ret.func_dict[n] = ValueOf(n, params)
        /\ ret.stage \in 4..7 => ~ret.recorded

\* C13 witness: an evaluation on a model with constraints ran all its steps
\* and persisted its record.
C13_Witness ==
    /\ ret.op = "objfunc" /\ ret.recorded /\ ret.nsolve = 1
    /\ declared = {"ceq", "cin", "clin"}
    /\ ret.point = [p \in Params |-> 1] /\ solvedAt = ret.point

\* C17: the evaluation callback returns fail flag 0 exactly when every step
\* through the record step completed; a failed invocation returns a
\* dictionary that holds only what this invocation harvested before the
\* exception, and an empty one when set_param or the solve raised.
C17_FailFlagAndPartialDict ==
    (ret.op = "objfunc" /\ ret.raised = None) =>
        /\ (ret.fail = 0) <=> (ret.stage = 8)
        /\ ret.fail \in {0, 1}
        /\ DOMAIN ret.func_dict =
              IF ret.stage > 6 THEN AllResponses
              ELSE IF ret.stage > 5 THEN Range(ObjOrder)
              ELSE {}
        /\ ret.stage <= 4 => ret.func_dict = EmptyDict
        /\ \A n \in DOMAIN ret.func_dict :
              ret.func_dict[n] = ValueOf(n, solvedAt)

\* C17 witness: get_constraints raised after the objectives were copied;
\* the callback returned fail flag 1 with the objectives only.
C17_Witness ==
    /\ ret.op = "objfunc" /\ ret.fail = 1 /\ ret.stage = 6
    /\ declared # {} /\ DOMAIN ret.func_dict = Range(ObjOrder)

\* C14: once run() has built the registry, every nonlinear constraint is
\* registered exactly once, not flagged linear, with wrt equal to its
\* relevant set intersected with the registered design variables; an
\* equality constraint with lower = upper = its target, an inequality
\* constraint with its own lower and upper bounds.
C14_NonlinearRegistration ==
    phase = "Solving" =>
        \A c \in NonlinearCons :
            LET idx == {i \in 1..Len(opt_prob.cons) : opt_prob.cons[i].name = c}
            IN  /\ Cardinality(idx) = 1
                /\ \A i \in idx :
                      LET g == opt_prob.cons[i]
                      IN  /\ ~g.linear
                          /\ g.wrt = relevant[c] \cap Registered
                          /\ con_meta[c].ctype = "eq" =>
                                (g.lower = con_meta[c].equals
                                 /\ g.upper = con_meta[c].equals)
                          /\ con_meta[c].ctype = "ineq" =>
                                (g.lower = con_meta[c].lower
                                 /\ g.upper = con_meta[c].upper)

\* C14 witness: run() entered the engine on a model with a nonlinear
\* equality and a nonlinear inequality constraint.
C14_Witness ==
    /\ phase = "Solving" /\ ret.op = "run"
    /\ {"ceq", "cin"} \subseteq declared
    /\ Len(opt_prob.cons) = 2
    /\ opt_prob.cons[1].wrt = {"p1"} /\ opt_prob.cons[2].wrt = {"p2"}

\* C18: the gradient callback changes no driver or model state (design
\* variable values, last solve, iteration counter, metadata, response list,
\* linear Jacobians, registry, handle, solution, exit flag), runs no solve,
\* and the sensitivities it returns are those of the model state left by
\* the most recent solve, not of the point it was given.
C18_GradfuncFrame ==
    [][ret'.op = "gradfunc" =>
          /\ UNCHANGED <<params, solvedAt, iter_count, metadata, quantities,
                         lin_jacs, param_list, opt_prob, _problem,
                         pyopt_solution, exit_flag, phase>>
          /\ ret'.nsolve = 0
          /\ \A r \in DOMAIN ret'.sens_dict :
                \A p \in DOMAIN ret'.sens_dict[r] :
                    ret'.sens_dict[r][p] = solvedAt]_vars

\* C18 witness: a gradient callback given a point with p1 only returned the
\* sensitivities of the state solved at another point.
C18_Witness ==
    /\ ret.op = "gradfunc" /\ ret.fail = 0 /\ ret.pt = {"p1"}
    /\ solvedAt = [p \in Params |-> IF p = "p2" THEN 1 ELSE 0]
    /\ ret.sens_dict["f"]["p1"] = solvedAt /\ iter_count = 1

\* C19: exit_flag is 1 only if the most recently started run reached
\* finalization with a success status code; a run in progress or aborted
\* never shows the 1 of an earlier run.
C19_ExitFlagOfLastRun ==
    exit_flag = 1 =>
        /\ phase = "Done"
        /\ pyopt_solution # <<>>
        /\ ExitClass(pyopt_solution[1]).exit_flag = 1

\* C20: the problem handle is set only while control is inside the engine;
\* it is None before the engine is invoked and once run() has ended,
\* by return or by an exception of the engine.
C20_HandleOnlyInEngine ==
    _problem # None => phase = "Solving"

\* C15: with the pyopt_diff toggle on, the engine is given 'FD' and not the
\* gradient callback, and no gradient callback computes a gradient while
\* that run is inside the engine; with the toggle off the gradient
\* callback is the sensitivity source given to the engine.
C15_SensSource ==
    /\ phase = "Solving" =>
          sens = (IF pyopt_diff THEN "FD" ELSE "gradfunc")
    /\ (phase = "Solving" /\ pyopt_diff) =>
          (ret.op # "gradfunc" /\ (ret.op # "run" => ret.ngrad = 0))

\* C15 witness: a run with the toggle on is inside the engine, which was
\* given 'FD' and has evaluated the objective callback twice.
C15_Witness ==
    /\ phase = "Solving" /\ pyopt_diff /\ sens = "FD"
    /\ ret.op = "objfunc" /\ ret.fail = 0 /\ iter_count = 2

\* C16: every column the complex step has computed for y[0] = 2x[0] + 7x[1],
\* y[1] = 5x[0] - 3x[1] is the column of [[2,7],[5,-3]], whatever the point
\* and the step, and once both Jacobians are complete the absolute and the
\* relative error against the reference derivative are zero.
C16_ComplexStepJacobian ==
    /\ 1 \in cs.done => cs.J[1] = <<2, 5>>
    /\ 2 \in cs.done => cs.J[2] = <<7, 0 - 3>>
    /\ (cs.done = {1, 2} /\ cs.fdone = {1, 2}) =>
          (AbsError(cs.J, cs.fd) = 0 /\ RelErrorZero(cs.J, cs.fd))

\* C16 witness: at the test's point x = (1, 1) with a step of 2 both
\* perturbation runs and the reference are done and J is the matrix.
C16_Witness ==
    /\ cs.x = <<1, 1>> /\ cs.h = 2
    /\ cs.done = {1, 2} /\ cs.fdone = {1, 2}
    /\ cs.J = [j \in 1..2 |-> IF j = 1 THEN <<2, 5>> ELSE <<7, 0 - 3>>]
    /\ AbsError(cs.J, cs.fd) = 0

====
